---- MODULE Spec2Model ----
(***************************************************************************)
(* Reiter-model snowflake automaton of snowflake.c (16x16 odd-q hex grid). *)
(*                                                                         *)
(* Numbers.  The C code computes in IEEE single precision.  The model      *)
(* computes in fixed point: s, u, beta and gamma are integers in units of  *)
(* 1/Unit, alpha is an integer number of tenths (its adjustment step), and *)
(* the two divisions of the diffusion formula round to nearest.            *)
(***************************************************************************)
EXTENDS Integers, Sequences, FiniteSets, TLC

(***************************************************************************)
(* Constants of snowflake.c                                                *)
(***************************************************************************)
GRID_SIZE == 16

\* the float 1.0f in fixed-point units
Unit == 100000

\* the float 1.0f of alpha, which is kept in tenths
AlphaUnit == 10

ALPHA_MIN == 5
ALPHA_MAX == 50
ALPHA_STEP == 1
ALPHA_INIT == 10

BETA_MIN == 10000
BETA_MAX == 90000
BETA_STEP == 5000
BETA_INIT == 50000

GAMMA_MIN == 100
GAMMA_MAX == 10000
GAMMA_STEP == 500
GAMMA_INIT == 1000

PARAM_ALPHA == 0
PARAM_BETA == 1
PARAM_GAMMA == 2
PARAM_COUNT == 3

\* press_duration above which a Back release exits
LONG_PRESS == 500

(***************************************************************************)
(* Bounds of the exploration                                               *)
(***************************************************************************)
\* OK presses (calls of grow_snowflake that complete) per run of the event loop
MaxStep == 3
\* OK presses per run of the runs without parameter adjustments
MaxDeepStep == 6
\* Left/Right parameter adjustments per run
MaxAdjust == 1
\* OK presses per run of the end-to-end scenario runs
MaxLongStep == 50
\* README.md: the largest system tick tried as the random seed
MaxTick == 31
\* README.md: the step counter up to which OK presses are handled
MaxCanvasStep == 2
\* part_000: OK presses per run
MaxFixedStep == 30

\* the OK presses after reset that the late runs of part_000 start from
FixedStart == 450

\* the OK presses explored after FixedStart
MaxLateStep == 12

(***************************************************************************)
(* Grid addressing and hex topology                                        *)
(***************************************************************************)
Idx == 0 .. (GRID_SIZE * GRID_SIZE - 1)

get_index(x, y) == y * GRID_SIZE + x

XOf(i) == i % GRID_SIZE

YOf(i) == i \div GRID_SIZE

\* a typo in the N entry of the even-column table
get_hex_neighbors_typo(x, y) ==
    IF x % 2 = 0
    THEN << <<x, y - 2>>, <<x + 1, y - 1>>, <<x + 1, y>>,
            <<x, y + 1>>, <<x - 1, y>>, <<x - 1, y - 1>> >>
    ELSE << <<x, y - 1>>, <<x + 1, y>>, <<x + 1, y + 1>>,
            <<x, y + 1>>, <<x - 1, y + 1>>, <<x - 1, y>> >>

get_hex_neighbors(x, y) ==
    IF x % 2 = 0
    THEN << <<x, y - 1>>, <<x + 1, y - 1>>, <<x + 1, y>>,
            <<x, y + 1>>, <<x - 1, y>>, <<x - 1, y - 1>> >>
    ELSE << <<x, y - 1>>, <<x + 1, y>>, <<x + 1, y + 1>>,
            <<x, y + 1>>, <<x - 1, y + 1>>, <<x - 1, y>> >>

\* nx >= 0 && nx < GRID_SIZE && ny >= 0 && ny < GRID_SIZE
in_grid(nx, ny) == nx >= 0 /\ nx < GRID_SIZE /\ ny >= 0 /\ ny < GRID_SIZE

\* the in-grid neighbours of every cell, as indices, in the order of the table
NeighborIdx ==
    [i \in Idx |->
        LET nb == get_hex_neighbors(XOf(i), YOf(i))
            F[k \in 0 .. 6] ==
                IF k = 0 THEN << >>
                ELSE IF in_grid(nb[k][1], nb[k][2])
                     THEN Append(F[k - 1], get_index(nb[k][1], nb[k][2]))
                     ELSE F[k - 1]
        IN F[6]]

\* an off-by-one in the upper limits of the border ring
is_border_off_by_one(x, y) ==
    x < 2 \/ x > GRID_SIZE - 2 \/ y < 2 \/ y > GRID_SIZE - 2

\* the border ring, two cells wide
is_border(x, y) ==
    x < 2 \/ x >= GRID_SIZE - 2 \/ y < 2 \/ y >= GRID_SIZE - 2

BorderIdx == {i \in Idx : is_border(XOf(i), YOf(i))}

\* is_boundary_cell without the search for a frozen neighbour
is_boundary_cell_never(fz, i) == FALSE

is_boundary_cell(fz, i) ==
    IF fz[i] THEN FALSE
    ELSE IF i \in BorderIdx THEN FALSE
    ELSE \E k \in 1 .. Len(NeighborIdx[i]) : fz[NeighborIdx[i][k]]

(***************************************************************************)
(* Fixed-point arithmetic                                                  *)
(***************************************************************************)
\* n / d rounded to nearest (d > 0), as a float division rounds
RDiv(n, d) == (2 * n + d) \div (2 * d)

(***************************************************************************)
(* init_snowflake                                                          *)
(***************************************************************************)
center == GRID_SIZE \div 2

center_idx == get_index(center, center)

\* init_snowflake without the reset of the step counter
init_snowflake_keeps_step(st, b) ==
    [s      |-> [i \in Idx |-> IF i = center_idx THEN Unit ELSE b],
     u      |-> [i \in Idx |-> 0],
     frozen |-> [i \in Idx |-> i = center_idx],
     step   |-> st.step]

\* the grid after init_snowflake, from grid st with boundary vapor level b
init_snowflake(st, b) ==
    [s      |-> [i \in Idx |-> IF i = center_idx THEN Unit ELSE b],
     u      |-> [i \in Idx |-> 0],
     frozen |-> [i \in Idx |-> i = center_idx],
     step   |-> 0]

(***************************************************************************)
(* grow_snowflake                                                          *)
(*                                                                         *)
(* The two scans that write a transient buffer are written as the nested   *)
(* loops of the code, one cell per position.  Every position also reads    *)
(* cell 0 of the buffer it received: the test never ends a scan, it makes  *)
(* TLC evaluate the buffer there instead of at the end of the scan.        *)
(***************************************************************************)
\* the order in which the loops of grow_snowflake visit the rows (outer loop)
\* and the columns (inner loop): both ascending
ScanOrder == [k \in 1 .. GRID_SIZE |-> k - 1]

\* is_receptive = frozen[idx] || is_boundary_cell(state, x, y)
is_receptive(fz, i) == fz[i] \/ is_boundary_cell(fz, i)

\* Step 1: u = 0 for receptive cells, u = s for the others
ClassifyPass(s0, fz) ==
    [i \in Idx |-> IF is_receptive(fz, i) THEN 0 ELSE s0[i]]

\* Step 2, one cell: its new vapor value, reading the vapor field src
DiffusionCell(src, i, a, b) ==
    IF i \in BorderIdx THEN b
    ELSE LET nb    == NeighborIdx[i]
             S[k \in 0 .. Len(nb)] ==
                 IF k = 0 THEN 0 ELSE S[k - 1] + src[nb[k]]
             sum   == S[Len(nb)]
             count == Len(nb)
             avg   == IF count > 0 THEN RDiv(sum, count) ELSE src[i]
         IN src[i] + RDiv(a * (avg - src[i]), 2 * AlphaUnit)

RECURSIVE DiffusionRowInPlace(_, _, _, _, _, _)
DiffusionRowInPlace(xs, kx, y, cur, a, b) ==
    IF kx > Len(xs) \/ cur[0] # cur[0] THEN cur
    ELSE DiffusionRowInPlace(xs, kx + 1, y,
             [cur EXCEPT ![get_index(xs[kx], y)] =
                 DiffusionCell(cur, get_index(xs[kx], y), a, b)], a, b)

RECURSIVE DiffusionScanInPlace(_, _, _, _, _, _)
DiffusionScanInPlace(ys, ky, xs, cur, a, b) ==
    IF ky > Len(ys) \/ cur[0] # cur[0] THEN cur
    ELSE DiffusionScanInPlace(ys, ky + 1, xs,
             DiffusionRowInPlace(xs, 1, ys[ky], cur, a, b), a, b)

\* Step 2 written in place into state->u: a cell reads the values already
\* written in this scan
DiffusionPassInPlace(ys, xs, u1, a, b) ==
    DiffusionScanInPlace(ys, 1, xs, u1, a, b)

RECURSIVE DiffusionRow(_, _, _, _, _, _, _)
\* Step 2, inner loop from position kx of row y on: writes u_new, reads u1
DiffusionRow(xs, kx, y, u_new, u1, a, b) ==
    IF kx > Len(xs) \/ u_new[0] # u_new[0] THEN u_new
    ELSE DiffusionRow(xs, kx + 1, y,
             [u_new EXCEPT ![get_index(xs[kx], y)] =
                 DiffusionCell(u1, get_index(xs[kx], y), a, b)],
             u1, a, b)

RECURSIVE DiffusionScan(_, _, _, _, _, _, _)
\* Step 2, outer loop from position ky on
DiffusionScan(ys, ky, xs, u_new, u1, a, b) ==
    IF ky > Len(ys) \/ u_new[0] # u_new[0] THEN u_new
    ELSE DiffusionScan(ys, ky + 1, xs,
             DiffusionRow(xs, 1, ys[ky], u_new, u1, a, b), u1, a, b)

\* Step 2 and the memcpy of u_new to u, the rows visited in the order ys and
\* the columns in the order xs (u_new starts unwritten: every cell is written
\* before the copy)
DiffusionPass(ys, xs, u1, a, b) ==
    DiffusionScan(ys, 1, xs, [i \in Idx |-> 0], u1, a, b)

\* s_new of a receptive cell without its old water content
s_receptive_drops_s(sv, uv, g) == uv + g

\* s_new of a receptive cell: u + s + gamma
s_receptive(sv, uv, g) == uv + sv + g

\* frozen_new from calloc instead of the copy of frozen
frozen_new_zeroed(fz) == [i \in Idx |-> FALSE]

\* memcpy(frozen_new, state->frozen)
frozen_new_copy(fz) == fz

\* the body of the loop with a non-receptive cell keeping its water content
AccumulateCell_keeps_s(buf, mask, i, s0, u2, fz, b, g) ==
    IF i \in BorderIdx
    THEN [s_new      |-> [buf.s_new EXCEPT ![i] = b],
          frozen_new |-> [buf.frozen_new EXCEPT ![i] = FALSE],
          rec        |-> [buf.rec EXCEPT ![i] = FALSE]]
    ELSE LET recv == is_receptive(mask, i)
             sn   == IF recv THEN s_receptive(s0[i], u2[i], g) ELSE s0[i]
         IN [s_new      |-> [buf.s_new EXCEPT ![i] = sn],
             frozen_new |-> IF recv /\ ~fz[i] /\ sn >= Unit
                            THEN [buf.frozen_new EXCEPT ![i] = TRUE]
                            ELSE buf.frozen_new,
             rec        |-> [buf.rec EXCEPT ![i] = recv]]

\* Step 3 phase 1, one cell: the buffers after the body of the loop for cell
\* i, which reads the receptive classification from the mask `mask`
AccumulateCell(buf, mask, i, s0, u2, fz, b, g) ==
    IF i \in BorderIdx
    THEN [s_new      |-> [buf.s_new EXCEPT ![i] = b],
          frozen_new |-> [buf.frozen_new EXCEPT ![i] = FALSE],
          rec        |-> [buf.rec EXCEPT ![i] = FALSE]]
    ELSE LET recv == is_receptive(mask, i)
             sn   == IF recv THEN s_receptive(s0[i], u2[i], g) ELSE u2[i]
         IN [s_new      |-> [buf.s_new EXCEPT ![i] = sn],
             frozen_new |-> IF recv /\ ~fz[i] /\ sn >= Unit
                            THEN [buf.frozen_new EXCEPT ![i] = TRUE]
                            ELSE buf.frozen_new,
             rec        |-> [buf.rec EXCEPT ![i] = recv]]

\* s_new, frozen_new (and the classification used) before the scan
AccumulateInit(fz) ==
    [s_new      |-> [i \in Idx |-> 0],
     frozen_new |-> frozen_new_copy(fz),
     rec        |-> [i \in Idx |-> FALSE]]

RECURSIVE AccumulateRowInPlace(_, _, _, _, _, _, _, _, _)
AccumulateRowInPlace(xs, kx, y, buf, s0, u2, fz, b, g) ==
    IF kx > Len(xs) \/ buf.s_new[0] # buf.s_new[0] THEN buf
    ELSE AccumulateRowInPlace(xs, kx + 1, y,
             AccumulateCell(buf, buf.frozen_new, get_index(xs[kx], y),
                            s0, u2, fz, b, g),
             s0, u2, fz, b, g)

RECURSIVE AccumulateScanInPlace(_, _, _, _, _, _, _, _, _)
AccumulateScanInPlace(ys, ky, xs, buf, s0, u2, fz, b, g) ==
    IF ky > Len(ys) \/ buf.s_new[0] # buf.s_new[0] THEN buf
    ELSE AccumulateScanInPlace(ys, ky + 1, xs,
             AccumulateRowInPlace(xs, 1, ys[ky], buf, s0, u2, fz, b, g),
             s0, u2, fz, b, g)

\* Step 3 with the receptive check reading the mask being written, so that a
\* freeze decided earlier in the scan is seen later in it
AccumulatePassInPlace(ys, xs, s0, u2, fz, b, g) ==
    AccumulateScanInPlace(ys, 1, xs, AccumulateInit(fz), s0, u2, fz, b, g)

RECURSIVE AccumulateRow(_, _, _, _, _, _, _, _, _)
\* Step 3 phase 1, inner loop from position kx of row y on; the receptive
\* check reads state->frozen, which the scan does not write
AccumulateRow(xs, kx, y, buf, s0, u2, fz, b, g) ==
    IF kx > Len(xs) \/ buf.s_new[0] # buf.s_new[0] THEN buf
    ELSE AccumulateRow(xs, kx + 1, y,
             AccumulateCell(buf, fz, get_index(xs[kx], y), s0, u2, fz, b, g),
             s0, u2, fz, b, g)

RECURSIVE AccumulateScan(_, _, _, _, _, _, _, _, _)
\* Step 3 phase 1, outer loop from position ky on
AccumulateScan(ys, ky, xs, buf, s0, u2, fz, b, g) ==
    IF ky > Len(ys) \/ buf.s_new[0] # buf.s_new[0] THEN buf
    ELSE AccumulateScan(ys, ky + 1, xs,
             AccumulateRow(xs, 1, ys[ky], buf, s0, u2, fz, b, g),
             s0, u2, fz, b, g)

\* Step 3 phase 1: s_new and frozen_new after the scan, the rows visited in
\* the order ys and the columns in the order xs
AccumulatePass(ys, xs, s0, u2, fz, b, g) ==
    AccumulateScan(ys, 1, xs, AccumulateInit(fz), s0, u2, fz, b, g)

\* outcome of the three allocations of one call
AllocOutcomes == {"ok", "no_u_new", "no_s_new"}

\* Phase 2 of step 3: the memcpy of s_new and frozen_new, and step++
grow_commit(st, u2, acc) ==
    [grid |-> [s      |-> acc.s_new,
               u      |-> u2,
               frozen |-> acc.frozen_new,
               step   |-> st.step + 1],
     rec  |-> acc.rec]

\* grow_snowflake from the memcpy of u_new on
grow_step3(st, u2, b, g, alloc) ==
    IF alloc = "no_s_new"
    THEN [grid |-> [st EXCEPT !.u = u2], rec |-> [i \in Idx |-> FALSE]]
    ELSE grow_commit(st, u2,
             AccumulatePass(ScanOrder, ScanOrder, st.s, u2, st.frozen, b, g))

\* grow_snowflake without step 1: the diffusion reads state->u as the call
\* found it
grow_snowflake_stale_u(st, a, b, g, alloc) ==
    IF alloc = "no_u_new" THEN [grid |-> st, rec |-> [i \in Idx |-> FALSE]]
    ELSE grow_step3(st, DiffusionPass(ScanOrder, ScanOrder, st.u, a, b),
                    b, g, alloc)

\* the grid after grow_snowflake from grid st, and the classification its
\* step 3 used
grow_snowflake(st, a, b, g, alloc) ==
    IF alloc = "no_u_new" THEN [grid |-> st, rec |-> [i \in Idx |-> FALSE]]
    ELSE grow_step3(st,
             DiffusionPass(ScanOrder, ScanOrder,
                           ClassifyPass(st.s, st.frozen), a, b),
             b, g, alloc)

(***************************************************************************)
(* The probabilistic variant of README.md: a 64x64 canvas of pixels, every *)
(* set pixel trying to set each empty neighbour with a fixed probability.  *)
(***************************************************************************)
CANVAS_SIZE == 64

GROWTH_PROBABILITY == 35

\* the multiplier 1103515245 of random_next is LCG_A_HI * 2^16 + LCG_A_LO
LCG_A_HI == 16838

LCG_A_LO == 20077

\* the increment of random_next
LCG_C == 12345

\* the hexagonal direction vectors
dx == <<1, 1, 0, -1, -1, 0>>

dy == <<0, -1, -1, 0, 1, 1>>

CanvasIdx == 0 .. (CANVAS_SIZE * CANVAS_SIZE - 1)

\* *seed = (*seed * 1103515245 + 12345) & 0x7fffffff; return (*seed / 65536) % 100
\* for a seed below 2^31, computed on the 16-bit halves of the seed so that no
\* intermediate value leaves 32 bits
random_next(seed) ==
    LET h     == seed \div 65536
        l     == seed % 65536
        p     == l * LCG_A_LO
        cross == (h * LCG_A_LO + l * LCG_A_HI) % 32768
        lo0   == (p % 65536) + LCG_C
        hi    == ((p \div 65536) + cross + (lo0 \div 65536)) % 32768
    IN [seed |-> hi * 65536 + (lo0 % 65536), val |-> hi % 100]

\* init_snowflake of README.md, the system tick being `tick`
readme_init_snowflake(tick) ==
    LET actualW == IF CANVAS_SIZE % 2 = 0 THEN CANVAS_SIZE - 1 ELSE CANVAS_SIZE
        c       == actualW \div 2
    IN [canvas  |-> [i \in CanvasIdx |-> IF i = c * CANVAS_SIZE + c THEN 1 ELSE 0],
        actualW |-> actualW,
        step    |-> 0,
        seed    |-> tick]

RECURSIVE SortAsc(_)
\* the elements of a finite set of numbers in ascending order
SortAsc(S) ==
    IF S = {} THEN << >>
    ELSE LET m == CHOOSE a \in S : \A b \in S : a <= b
         IN <<m>> \o SortAsc(S \ {m})

\* the pixels the two outer loops of grow_snowflake do not skip, in the order
\* the loops visit them (y outer, x inner, both ascending)
ScanPixels(canvas, actualW) ==
    SortAsc({i \in CanvasIdx : /\ i % CANVAS_SIZE < actualW
                               /\ i \div CANVAS_SIZE < actualW
                               /\ canvas[i] # 0})

\* one growth attempt into the empty pixel n, r being the random draw
GrowAttempt(acc, n, r) ==
    IF r.val < GROWTH_PROBABILITY
    THEN [newPixels   |-> [acc.newPixels EXCEPT ![n] = 1],
          seed        |-> r.seed,
          pixelsAdded |-> acc.pixelsAdded + 1]
    ELSE [acc EXCEPT !.seed = r.seed]

RECURSIVE GrowScan(_, _, _, _, _, _)
\* the loops of grow_snowflake from direction dir of the k-th set pixel on;
\* the test on acc.seed never ends the scan, it makes TLC evaluate acc here
GrowScan(canvas, actualW, px, k, dir, acc) ==
    IF k > Len(px) \/ acc.seed # acc.seed THEN acc
    ELSE IF dir > 6 THEN GrowScan(canvas, actualW, px, k + 1, 1, acc)
    ELSE LET nx == (px[k] % CANVAS_SIZE) + dx[dir]
             ny == (px[k] \div CANVAS_SIZE) + dy[dir]
         IN IF nx < 0 \/ nx >= actualW \/ ny < 0 \/ ny >= actualW
            THEN GrowScan(canvas, actualW, px, k, dir + 1, acc)
            ELSE IF canvas[ny * CANVAS_SIZE + nx] = 0
            THEN GrowScan(canvas, actualW, px, k, dir + 1,
                     GrowAttempt(acc, ny * CANVAS_SIZE + nx,
                                 random_next(acc.seed)))
            ELSE GrowScan(canvas, actualW, px, k, dir + 1, acc)

\* the end of grow_snowflake: the copy back, the step counter, the return
readme_grow_finish(st, acc) ==
    [state |-> [canvas  |-> acc.newPixels,
                actualW |-> st.actualW,
                step    |-> IF acc.pixelsAdded > 0 THEN st.step + 1 ELSE st.step,
                seed    |-> acc.seed],
     ret   |-> acc.pixelsAdded]

\* outcome of the calloc of newPixels
CanvasAllocOutcomes == {"ok", "no_newPixels"}

\* grow_snowflake of README.md: the state after the call and the value returned
readme_grow_snowflake(st, alloc) ==
    IF alloc = "no_newPixels" THEN [state |-> st, ret |-> 0]
    ELSE readme_grow_finish(st,
             GrowScan(st.canvas, st.actualW, ScanPixels(st.canvas, st.actualW),
                      1, 1,
                      [newPixels |-> st.canvas, seed |-> st.seed,
                       pixelsAdded |-> 0]))

(***************************************************************************)
(* The 64x64 diffusion variant of part_000: fixed parameters, a border     *)
(* ring one cell wide, and the update of s and frozen written in place.    *)
(***************************************************************************)
p0_GRID_SIZE == 64

\* ALPHA 2.0f, in tenths
ALPHA == 20

\* BETA 0.6f
BETA == 60000

\* GAMMA 0.05f
GAMMA == 5000

P0Idx == 0 .. (p0_GRID_SIZE * p0_GRID_SIZE - 1)

\* an array of the program, its cells computed once and then stored: the test
\* makes TLC build the whole function here instead of on every later read
Stored(f) == IF f = f THEN f ELSE f

p0_get_index(x, y) == y * p0_GRID_SIZE + x

\* the in-grid neighbours of every cell in the directions dx, dy, as indices
P0NeighborIdx ==
    Stored([i \in P0Idx |->
        LET x == i % p0_GRID_SIZE
            y == i \div p0_GRID_SIZE
            F[k \in 0 .. 6] ==
                IF k = 0 THEN << >>
                ELSE IF /\ x + dx[k] >= 0 /\ x + dx[k] < p0_GRID_SIZE
                        /\ y + dy[k] >= 0 /\ y + dy[k] < p0_GRID_SIZE
                     THEN Append(F[k - 1], p0_get_index(x + dx[k], y + dy[k]))
                     ELSE F[k - 1]
        IN F[6]])

\* the same neighbours as a set, for the tests that stop at the first hit
P0NeighborSet ==
    Stored([i \in P0Idx |->
               {P0NeighborIdx[i][k] : k \in 1 .. Len(P0NeighborIdx[i])}])

\* the outermost ring: x == 0 || x == GRID_SIZE - 1 || y == 0 || y == GRID_SIZE - 1
P0RingIdx ==
    {i \in P0Idx : \/ i % p0_GRID_SIZE = 0
                   \/ i % p0_GRID_SIZE = p0_GRID_SIZE - 1
                   \/ i \div p0_GRID_SIZE = 0
                   \/ i \div p0_GRID_SIZE = p0_GRID_SIZE - 1}

\* is_boundary_cell of part_000: unfrozen with a frozen in-grid neighbour;
\* fz is state->frozen as the set of the cells it holds true for
p0_is_boundary_cell(fz, i) == i \notin fz /\ P0NeighborSet[i] \cap fz # {}

\* is_receptive = frozen[idx] || is_boundary_cell(state, x, y)
p0_is_receptive(fz, i) == i \in fz \/ p0_is_boundary_cell(fz, i)

p0_center_idx == p0_get_index(p0_GRID_SIZE \div 2, p0_GRID_SIZE \div 2)

\* init_snowflake of part_000
p0_init_snowflake ==
    [s      |-> Stored([i \in P0Idx |-> IF i = p0_center_idx THEN Unit ELSE BETA]),
     u      |-> Stored([i \in P0Idx |-> 0]),
     frozen |-> {p0_center_idx},
     step   |-> 0]

\* Step 1: u = 0 for receptive cells, u = s for the others
P0ClassifyPass(s0, fz) ==
    Stored([i \in P0Idx |-> IF p0_is_receptive(fz, i) THEN 0 ELSE s0[i]])

RECURSIVE P0Sum(_, _, _)
\* sum += state->u[get_index(nx, ny)] over the first k in-grid neighbours
P0Sum(u1, nb, k) == IF k = 0 THEN 0 ELSE P0Sum(u1, nb, k - 1) + u1[nb[k]]

\* the sum over all the in-grid neighbours nb of a cell, the six additions
\* written out for a cell that has all its neighbours in the grid
P0NeighborSum(u1, nb) ==
    IF Len(nb) = 6
    THEN u1[nb[1]] + u1[nb[2]] + u1[nb[3]] + u1[nb[4]] + u1[nb[5]] + u1[nb[6]]
    ELSE P0Sum(u1, nb, Len(nb))

\* avg = sum / count, u_new = u + ALPHA / 2 * (avg - u)
P0DiffusionValue(ui, sum, count) ==
    ui + RDiv(ALPHA * ((IF count > 0 THEN RDiv(sum, count) ELSE ui) - ui),
              2 * AlphaUnit)

\* Step 2, one cell: u_new from the vapor field u1 of step 1
P0DiffusionCell(u1, i) ==
    IF i \in P0RingIdx THEN BETA
    ELSE P0DiffusionValue(u1[i], P0NeighborSum(u1, P0NeighborIdx[i]),
                          Len(P0NeighborIdx[i]))

\* Steps 2 and 3: every u_new is computed from state->u, then copied back
P0DiffusionPass(u1) == Stored([i \in P0Idx |-> P0DiffusionCell(u1, i)])

\* Step 4, one cell, cur being state->frozen as the scan has left it and the
\* set of the cells the scan has found receptive so far: the receptive check
\* reads the frozen array that the scan writes.  state->s[idx] is read and
\* written by the visit of cell idx only, so the scan carries s0, the s of
\* the start of the call, and the new s is written out after the scan.
P0UpdateCell(cur, i, s0) ==
    IF p0_is_receptive(cur.frozen, i)
    THEN [frozen |-> IF i \notin cur.frozen /\ s0[i] + GAMMA >= Unit
                     THEN cur.frozen \cup {i}
                     ELSE cur.frozen,
          rec    |-> cur.rec \cup {i}]
    ELSE cur

RECURSIVE P0UpdateRange(_, _, _, _)
\* Step 4 over the cells lo .. hi - 1 in the order of the loops, y ascending
\* and x ascending within a row, which is the ascending order of get_index.
\* The range is halved only to keep the evaluation shallow, and the test on
\* cur never ends the scan: it makes TLC evaluate cur before it goes on.
P0UpdateRange(lo, hi, cur, s0) ==
    IF Cardinality(cur.frozen) < 0 THEN cur
    ELSE IF hi - lo = 1 THEN P0UpdateCell(cur, lo, s0)
    ELSE P0UpdateRange((lo + hi) \div 2, hi,
             P0UpdateRange(lo, (lo + hi) \div 2, cur, s0), s0)

\* the end of grow_snowflake of part_000: the s that step 4 has written
\* (s + GAMMA for a cell it found receptive, u for the others), and step++
p0_grow_finish(st, u2, cur) ==
    [state |-> [s      |-> Stored([i \in P0Idx |->
                               IF i \in cur.rec THEN st.s[i] + GAMMA
                               ELSE u2[i]]),
                u      |-> u2,
                frozen |-> cur.frozen,
                step   |-> st.step + 1],
     rec   |-> cur.rec]

\* grow_snowflake of part_000 from the copy back of u_new on
p0_grow_step4(st, u2) ==
    p0_grow_finish(st, u2,
        P0UpdateRange(0, p0_GRID_SIZE * p0_GRID_SIZE,
                      [frozen |-> st.frozen, rec |-> {}], st.s))

\* outcome of the malloc of u_new
P0AllocOutcomes == {"ok", "no_u_new"}

\* grow_snowflake of part_000: the new state and the set of the cells that
\* step 4 has updated as receptive; a failed malloc returns before step 1
p0_grow_snowflake(st, alloc) ==
    IF alloc = "no_u_new" THEN [state |-> st, rec |-> {}]
    ELSE p0_grow_step4(st, P0DiffusionPass(P0ClassifyPass(st.s, st.frozen)))

RECURSIVE P0Run(_, _)
\* what n completed calls of grow_snowflake in a row return, from the state
\* of r on: the state and the receptive cells of the last call.  The run is
\* halved only to keep the evaluation shallow, and the test on r never ends
\* it: it makes TLC evaluate r before it goes on.
P0Run(n, r) ==
    IF n = 0 \/ r.state.step < 0 THEN r
    ELSE IF n = 1 THEN p0_grow_snowflake(r.state, "ok")
    ELSE P0Run(n - n \div 2, P0Run(n \div 2, r))

(***************************************************************************)
(* State                                                                   *)
(***************************************************************************)
VARIABLES
    s,              \* state->s: water content of every cell
    u,              \* state->u: diffusing vapor of every cell
    frozen,         \* state->frozen
    step,           \* state->step
    alpha,          \* state->alpha, in tenths
    beta,           \* state->beta
    gamma,          \* state->gamma
    selected_param, \* state->selected_param
    running,        \* the loop variable of snowflake_main
    lastOp,         \* the last operation on the grid and its outcome
    rec3,           \* the receptive classification its step 3 used
    nadjust,        \* Left/Right adjustments so far
    failures,       \* the allocation failures since the last reset
    pstate,         \* README.md: the SnowflakeState of the probabilistic variant
    lastCall,       \* README.md: the last call of grow_snowflake and its return
    p0state,        \* part_000: the SnowflakeState of the 64x64 variant
    p0rec           \* part_000: the cells its last step 4 updated as receptive

vars == <<s, u, frozen, step, alpha, beta, gamma, selected_param, running,
          lastOp, rec3, nadjust, failures, pstate, lastCall, p0state, p0rec>>

\* the variables of the probabilistic variant
canvasVars == <<pstate, lastCall>>

\* the variables of the 64x64 variant
fixedVars == <<p0state, p0rec>>

\* no call of part_000's grow_snowflake yet
P0NoRec == {}

\* the variables of snowflake.c other than the loop variable
gridVars == <<s, u, frozen, step, alpha, beta, gamma, selected_param,
              lastOp, rec3, nadjust, failures>>

\* no call of README.md's grow_snowflake yet
NoCall == [alloc |-> "none", added |-> 0]

\* the grid of the state, as the record the operations work on
Grid == [s |-> s, u |-> u, frozen |-> frozen, step |-> step]

NoRec == [i \in Idx |-> FALSE]

\* parameter settings the runs start from: the defaults of snowflake_main and
\* two settings that Left/Right adjustments followed by a reset arrive at
ParamPresets ==
    { <<ALPHA_INIT, BETA_INIT, GAMMA_INIT>>,
      <<ALPHA_MAX, BETA_MIN, GAMMA_MIN>>,
      <<ALPHA_MIN, BETA_MAX, GAMMA_MAX>> }

\* snowflake_main up to the event loop
Init ==
    \E p \in ParamPresets :
        LET g0 == init_snowflake([step |-> 0], p[2])
        IN /\ alpha = p[1]
           /\ beta = p[2]
           /\ gamma = p[3]
           /\ s = g0.s
           /\ u = g0.u
           /\ frozen = g0.frozen
           /\ step = g0.step
           /\ selected_param = PARAM_ALPHA
           /\ running = TRUE
           /\ lastOp = "init"
           /\ rec3 = NoRec
           /\ nadjust = 0
           /\ failures = {}
           /\ pstate = readme_init_snowflake(0)
           /\ lastCall = NoCall
           /\ p0state = p0_init_snowflake
           /\ p0rec = P0NoRec

(***************************************************************************)
(* The event loop of snowflake_main, one action per event                  *)
(***************************************************************************)
\* the grid of the next state is r.grid
SetGrid(r) ==
    /\ s' = r.grid.s
    /\ u' = r.grid.u
    /\ frozen' = r.grid.frozen
    /\ step' = r.grid.step
    /\ rec3' = r.rec

\* InputKeyOk, Press or Repeat: grow_snowflake, at most limit times
OkPress(alloc, limit) ==
    /\ running
    /\ step < limit
    /\ SetGrid(grow_snowflake(Grid, alpha, beta, gamma, alloc))
    /\ lastOp' = IF alloc = "ok" THEN "grow" ELSE alloc
    /\ failures' = IF alloc = "ok" THEN failures ELSE failures \cup {alloc}
    /\ UNCHANGED <<alpha, beta, gamma, selected_param, running, nadjust>>
    /\ UNCHANGED canvasVars
    /\ UNCHANGED fixedVars

\* the Back release with the long press beginning at the limit itself
BackRelease_at_limit(press_duration) ==
    /\ running
    /\ IF press_duration >= LONG_PRESS
       THEN /\ running' = FALSE
            /\ UNCHANGED <<s, u, frozen, step, lastOp, rec3, failures>>
       ELSE /\ SetGrid([grid |-> init_snowflake(Grid, beta), rec |-> NoRec])
            /\ lastOp' = "reset"
            /\ failures' = {}
            /\ UNCHANGED running
    /\ UNCHANGED <<alpha, beta, gamma, selected_param, nadjust>>
    /\ UNCHANGED canvasVars
    /\ UNCHANGED fixedVars

\* InputKeyBack, Release, after press_duration ticks
BackRelease(press_duration) ==
    /\ running
    /\ IF press_duration > LONG_PRESS
       THEN /\ running' = FALSE
            /\ UNCHANGED <<s, u, frozen, step, lastOp, rec3, failures>>
       ELSE /\ SetGrid([grid |-> init_snowflake(Grid, beta), rec |-> NoRec])
            /\ lastOp' = "reset"
            /\ failures' = {}
            /\ UNCHANGED running
    /\ UNCHANGED <<alpha, beta, gamma, selected_param, nadjust>>
    /\ UNCHANGED canvasVars
    /\ UNCHANGED fixedVars

\* InputKeyUp: previous parameter
UpPress ==
    /\ running
    /\ selected_param' = (selected_param + PARAM_COUNT - 1) % PARAM_COUNT
    /\ UNCHANGED <<s, u, frozen, step, alpha, beta, gamma, running,
                   lastOp, rec3, nadjust, failures>>
    /\ UNCHANGED canvasVars
    /\ UNCHANGED fixedVars

\* InputKeyDown: next parameter
DownPress ==
    /\ running
    /\ selected_param' = (selected_param + 1) % PARAM_COUNT
    /\ UNCHANGED <<s, u, frozen, step, alpha, beta, gamma, running,
                   lastOp, rec3, nadjust, failures>>
    /\ UNCHANGED canvasVars
    /\ UNCHANGED fixedVars

\* the increased value written without fminf
Min_unclamped(a, b) == a

Min(a, b) == IF a < b THEN a ELSE b

Max(a, b) == IF a > b THEN a ELSE b

\* InputKeyRight: increase the selected parameter
RightPress ==
    /\ running
    /\ nadjust < MaxAdjust
    /\ nadjust' = nadjust + 1
    /\ alpha' = IF selected_param = PARAM_ALPHA
                THEN Min(alpha + ALPHA_STEP, ALPHA_MAX) ELSE alpha
    /\ beta' = IF selected_param = PARAM_BETA
               THEN Min(beta + BETA_STEP, BETA_MAX) ELSE beta
    /\ gamma' = IF selected_param = PARAM_GAMMA
                THEN Min(gamma + GAMMA_STEP, GAMMA_MAX) ELSE gamma
    /\ UNCHANGED <<s, u, frozen, step, selected_param, running, lastOp, rec3,
                   failures>>
    /\ UNCHANGED canvasVars
    /\ UNCHANGED fixedVars

\* InputKeyLeft: decrease the selected parameter
LeftPress ==
    /\ running
    /\ nadjust < MaxAdjust
    /\ nadjust' = nadjust + 1
    /\ alpha' = IF selected_param = PARAM_ALPHA
                THEN Max(alpha - ALPHA_STEP, ALPHA_MIN) ELSE alpha
    /\ beta' = IF selected_param = PARAM_BETA
               THEN Max(beta - BETA_STEP, BETA_MIN) ELSE beta
    /\ gamma' = IF selected_param = PARAM_GAMMA
                THEN Max(gamma - GAMMA_STEP, GAMMA_MIN) ELSE gamma
    /\ UNCHANGED <<s, u, frozen, step, selected_param, running, lastOp, rec3,
                   failures>>
    /\ UNCHANGED canvasVars
    /\ UNCHANGED fixedVars

\* the press durations tried: at and just above the long-press limit
PressDurations == {LONG_PRESS, LONG_PRESS + 1}

\* the event loop, every allocation succeeding
Next ==
    \/ OkPress("ok", MaxStep)
    \/ \E d \in PressDurations : BackRelease(d)
    \/ UpPress
    \/ DownPress
    \/ RightPress
    \/ LeftPress

Spec == Init /\ [][Next]_vars

\* OK and Back only, the parameters staying as the run began, and every
\* outcome of the allocations
NextGrow ==
    \/ \E alloc \in AllocOutcomes : OkPress(alloc, MaxDeepStep)
    \/ \E d \in PressDurations : BackRelease(d)

SpecGrow == Init /\ [][NextGrow]_vars

(***************************************************************************)
(* End-to-end scenario runs of grow_snowflake                              *)
(***************************************************************************)
\* the parameter settings of the scenario runs: alpha = 1.0, beta = 0.5,
\* gamma = 0.01 (the defaults), and two settings with gamma = 0, a value
\* that grow_snowflake takes from state->gamma as any other although the
\* Left handler of the event loop stops at GAMMA_MIN
ScenarioPresets ==
    { <<ALPHA_INIT, BETA_INIT, GAMMA_INIT>>,
      <<ALPHA_INIT, BETA_INIT, 0>>,
      <<ALPHA_MIN, BETA_MIN, 0>> }

\* init_snowflake under a scenario setting
InitScenario ==
    \E p \in ScenarioPresets :
        LET g0 == init_snowflake([step |-> 0], p[2])
        IN /\ alpha = p[1]
           /\ beta = p[2]
           /\ gamma = p[3]
           /\ s = g0.s
           /\ u = g0.u
           /\ frozen = g0.frozen
           /\ step = g0.step
           /\ selected_param = PARAM_ALPHA
           /\ running = TRUE
           /\ lastOp = "init"
           /\ rec3 = NoRec
           /\ nadjust = 0
           /\ failures = {}
           /\ pstate = readme_init_snowflake(0)
           /\ lastCall = NoCall
           /\ p0state = p0_init_snowflake
           /\ p0rec = P0NoRec

\* OK and Back only, every allocation succeeding, up to MaxLongStep steps
NextScenario ==
    \/ OkPress("ok", MaxLongStep)
    \/ \E d \in PressDurations : BackRelease(d)

SpecScenario == InitScenario /\ [][NextScenario]_vars

(***************************************************************************)
(* The event loop of README.md's snowflake_main                            *)
(***************************************************************************)
\* system ticks tried as the random seed
Ticks == 0 .. MaxTick

\* README.md's snowflake_main up to the event loop, init_snowflake at tick
\* `tick`; the grid of snowflake.c rests in its default state
InitCanvas ==
    \E tick \in Ticks :
        LET g0 == init_snowflake([step |-> 0], BETA_INIT)
        IN /\ pstate = readme_init_snowflake(tick)
           /\ lastCall = NoCall
           /\ p0state = p0_init_snowflake
           /\ p0rec = P0NoRec
           /\ running = TRUE
           /\ alpha = ALPHA_INIT
           /\ beta = BETA_INIT
           /\ gamma = GAMMA_INIT
           /\ s = g0.s
           /\ u = g0.u
           /\ frozen = g0.frozen
           /\ step = g0.step
           /\ selected_param = PARAM_ALPHA
           /\ lastOp = "init"
           /\ rec3 = NoRec
           /\ nadjust = 0
           /\ failures = {}

\* the state and the return value of the call r
SetCanvas(r, alloc) ==
    /\ pstate' = r.state
    /\ lastCall' = [alloc |-> alloc, added |-> r.ret]

\* InputKeyOk: added = grow_snowflake(state)
CanvasOkPress(alloc) ==
    /\ running
    /\ pstate.step < MaxCanvasStep
    /\ SetCanvas(readme_grow_snowflake(pstate, alloc), alloc)
    /\ UNCHANGED running
    /\ UNCHANGED gridVars
    /\ UNCHANGED fixedVars

\* InputKeyLeft: init_snowflake(state)
CanvasLeftPress(tick) ==
    /\ running
    /\ pstate' = readme_init_snowflake(tick)
    /\ lastCall' = NoCall
    /\ UNCHANGED running
    /\ UNCHANGED gridVars
    /\ UNCHANGED fixedVars

\* InputKeyBack: exit
CanvasBackPress ==
    /\ running
    /\ running' = FALSE
    /\ UNCHANGED canvasVars
    /\ UNCHANGED gridVars
    /\ UNCHANGED fixedVars

NextCanvas ==
    \/ \E alloc \in CanvasAllocOutcomes : CanvasOkPress(alloc)
    \/ \E tick \in Ticks : CanvasLeftPress(tick)
    \/ CanvasBackPress

SpecCanvas == InitCanvas /\ [][NextCanvas]_vars

(***************************************************************************)
(* The event loop of part_000's snowflake_main                             *)
(***************************************************************************)
\* part_000's snowflake_main up to the event loop; the grid of snowflake.c
\* and the canvas of README.md rest in their default states
InitFixedAt(r) ==
    LET g0 == init_snowflake([step |-> 0], BETA_INIT)
    IN /\ p0state = r.state
       /\ p0rec = r.rec
       /\ running = TRUE
       /\ alpha = ALPHA_INIT
       /\ beta = BETA_INIT
       /\ gamma = GAMMA_INIT
       /\ s = g0.s
       /\ u = g0.u
       /\ frozen = g0.frozen
       /\ step = g0.step
       /\ selected_param = PARAM_ALPHA
       /\ lastOp = "init"
       /\ rec3 = NoRec
       /\ nadjust = 0
       /\ failures = {}
       /\ pstate = readme_init_snowflake(0)
       /\ lastCall = NoCall

\* the event loop entered after init_snowflake
InitFixed == InitFixedAt([state |-> p0_init_snowflake, rec |-> P0NoRec])

\* the event loop of a run in which OK has been pressed FixedStart times
\* since init_snowflake, every call completed
InitFixedLate ==
    InitFixedAt(P0Run(FixedStart, [state |-> p0_init_snowflake,
                                   rec   |-> P0NoRec]))

\* the step counters at which an OK press is explored: the first
\* MaxFixedStep presses after a reset, and MaxLateStep presses from
\* FixedStart on
InFixedWindow(n) ==
    \/ n < MaxFixedStep
    \/ n >= FixedStart /\ n < FixedStart + MaxLateStep

\* the state of the next state is r.state
SetFixed(r) ==
    /\ p0state' = r.state
    /\ p0rec' = r.rec

\* InputKeyOk: grow_snowflake(state)
FixedOkPress(alloc) ==
    /\ running
    /\ InFixedWindow(p0state.step)
    /\ SetFixed(p0_grow_snowflake(p0state, alloc))
    /\ UNCHANGED running
    /\ UNCHANGED gridVars
    /\ UNCHANGED canvasVars

\* InputKeyLeft: init_snowflake(state)
FixedLeftPress ==
    /\ running
    /\ p0state' = p0_init_snowflake
    /\ p0rec' = P0NoRec
    /\ UNCHANGED running
    /\ UNCHANGED gridVars
    /\ UNCHANGED canvasVars

\* InputKeyBack: exit
FixedBackPress ==
    /\ running
    /\ running' = FALSE
    /\ UNCHANGED fixedVars
    /\ UNCHANGED gridVars
    /\ UNCHANGED canvasVars

NextFixed ==
    \/ \E alloc \in P0AllocOutcomes : FixedOkPress(alloc)
    \/ FixedLeftPress
    \/ FixedBackPress

SpecFixed == InitFixed /\ [][NextFixed]_vars

SpecFixedLate == InitFixedLate /\ [][NextFixed]_vars

(***************************************************************************)
(* Properties                                                              *)
(***************************************************************************)
FrozenSet == {i \in Idx : frozen[i]}

\* a transition that is a completed call of grow_snowflake
Grew == step' = step + 1

\* a transition that is a short Back release
WasReset == \E d \in PressDurations : d <= LONG_PRESS /\ BackRelease(d)

\* the beta values the runs start from
PresetBetas == {p[2] : p \in ParamPresets}

\* C1: after init_snowflake, called from any state, exactly the centre cell
\* is frozen and has s = 1.0, every other cell is unfrozen with s = the
\* current beta, every u is 0 and the step counter is 0.
C1_ResetState ==
    [][WasReset =>
          /\ \A i \in Idx : frozen'[i] <=> (i = center_idx)
          /\ \A i \in Idx : s'[i] = IF i = center_idx THEN Unit ELSE beta'
          /\ \A i \in Idx : u'[i] = 0
          /\ step' = 0]_vars

\* a reset has acted under a beta that Left/Right produced
C1_Witness ==
    /\ lastOp = "reset"
    /\ beta \notin PresetBetas
    /\ s[0] = beta
    /\ FrozenSet = {center_idx}

\* C2: a call of grow_snowflake never unfreezes a cell: the frozen set after
\* the call includes the frozen set before it.
C2_FrozenSuperset ==
    [][Grew => \A i \in Idx : frozen[i] => frozen'[i]]_vars

\* two calls have completed and the second one froze more cells
C2_Witness ==
    /\ lastOp = "grow"
    /\ step >= 2
    /\ Cardinality(FrozenSet) > 7

\* C3: no border-ring cell (x < 2, x >= GRID_SIZE - 2, y < 2 or
\* y >= GRID_SIZE - 2) is ever frozen.
C3_BorderNeverFrozen ==
    \A x \in 0 .. GRID_SIZE - 1 : \A y \in 0 .. GRID_SIZE - 1 :
        (x < 2 \/ x >= GRID_SIZE - 2 \/ y < 2 \/ y >= GRID_SIZE - 2)
            => ~frozen[get_index(x, y)]

\* the crystal has arrived at the border ring: a frozen cell has a neighbour
\* in it
C3_Witness ==
    \E i \in FrozenSet :
        \E k \in 1 .. Len(NeighborIdx[i]) : NeighborIdx[i][k] \in BorderIdx

\* C4 (as claimed): the water content of every cell is never negative.
C4_WaterNonNegative == \A i \in Idx : s[i] >= 0

\* C5: a frozen cell holds s >= 1.0.
C5_FrozenAtLeastOne == \A i \in Idx : frozen[i] => s[i] >= Unit

\* a cell other than the seed is frozen and has accumulated beyond 1.0 since
C5_Witness ==
    /\ step >= 2
    /\ \E i \in FrozenSet : i # center_idx /\ s[i] > Unit + gamma

\* C6 (as claimed): a cell that is receptive when a step begins has, after
\* the step, at least the water content it had before.
C6_ReceptiveMonotone ==
    [][Grew => \A i \in Idx : is_receptive(frozen, i) => s'[i] >= s[i]]_vars

\* the scan orders opposite to the code's
ReverseOrder == [k \in 1 .. GRID_SIZE |-> GRID_SIZE - k]

\* C7: step 3 classifies every cell from the frozen mask of the start of the
\* step, as step 1 did, and the s and frozen it commits are the same for the
\* other orders of visiting the cells.
C7_SnapshotClassification ==
    [][Grew =>
          /\ \A i \in Idx \ BorderIdx : rec3'[i] = is_receptive(frozen, i)
          /\ \A ys \in {ScanOrder, ReverseOrder} :
                LET r == AccumulatePass(ys, ReverseOrder, s, u', frozen, beta, gamma)
                IN s' = r.s_new /\ frozen' = r.frozen_new]_vars

\* a step has frozen a cell whose successor in the scan, a neighbour of it,
\* stayed non-receptive in that step
C7_Witness ==
    /\ lastOp = "grow"
    /\ \E i \in FrozenSet :
          /\ i + 1 \in Idx \ BorderIdx
          /\ \E k \in 1 .. Len(NeighborIdx[i]) : NeighborIdx[i][k] = i + 1
          /\ ~frozen[i + 1]
          /\ ~rec3[i + 1]
          /\ s[i + 1] = u[i + 1]

RECURSIVE SumOver(_, _, _)
\* the sum of f over the first n entries of the sequence of cells nb
SumOver(f, nb, n) == IF n = 0 THEN 0 ELSE SumOver(f, nb, n - 1) + f[nb[n]]

\* the vapor field step 1 leaves, from the s and frozen of the state
Phase1U == [i \in Idx |-> IF is_receptive(frozen, i) THEN 0 ELSE s[i]]

\* C8: after a step, u of a border-ring cell is beta and u of every other
\* cell is u1 + (alpha / 2) * (average of u1 over its in-grid neighbours - u1)
\* with u1 the vapor field of step 1: no value written in the same pass is
\* read.
C8_DiffusionFromPhase1 ==
    [][Grew =>
          \A i \in Idx :
              u'[i] = IF i \in BorderIdx THEN beta
                      ELSE LET nb  == NeighborIdx[i]
                               avg == RDiv(SumOver(Phase1U, nb, Len(nb)), Len(nb))
                           IN Phase1U[i]
                                + RDiv(alpha * (avg - Phase1U[i]), 2 * AlphaUnit)]_vars

\* a step has diffused vapor into a cell from neighbours with different u:
\* some non-border cell holds a u that is neither 0 nor beta
C8_Witness ==
    /\ lastOp = "grow"
    /\ \E i \in Idx \ BorderIdx : u[i] # 0 /\ u[i] # beta /\ u[i] # s[i]

\* C9 (as claimed): the frozen pattern is its own mirror image about the
\* centre column.
C9_MirrorSymmetric ==
    \A x \in 0 .. GRID_SIZE - 1 : \A y \in 0 .. GRID_SIZE - 1 :
        in_grid(2 * center - x, y) =>
            frozen[get_index(x, y)] = frozen[get_index(2 * center - x, y)]

RECURSIVE Reach(_, _)
\* the frozen cells linked to the cells of `seen` by frozen neighbours
Reach(seen, frontier) ==
    IF frontier = {} THEN seen
    ELSE LET cand == UNION {{NeighborIdx[i][k] : k \in 1 .. Len(NeighborIdx[i])} :
                            i \in frontier}
             new  == {j \in cand : frozen[j] /\ j \notin seen}
         IN Reach(seen \cup new, new)

\* C10: every frozen cell is linked to the centre seed by a path of frozen
\* cells, each a hex neighbour of the one before.
C10_FrozenConnected ==
    FrozenSet \subseteq
        (IF frozen[center_idx] THEN Reach({center_idx}, {center_idx}) ELSE {})

\* the crystal has grown beyond the first ring: a frozen cell is no neighbour
\* of the seed
C10_Witness ==
    \E i \in FrozenSet :
        /\ i # center_idx
        /\ \A k \in 1 .. Len(NeighborIdx[i]) : NeighborIdx[i][k] # center_idx

\* the grid a call of grow_snowflake leaves, as a record
GridAfter == [s |-> s', u |-> u', frozen |-> frozen', step |-> step']

\* the vapor field that is 0 everywhere
NoVapor == [i \in Idx |-> 0]

RECURSIVE Replay(_)
\* the grid of the run that resets and then completes n steps, under the
\* parameters of the state
Replay(n) ==
    IF n = 0 THEN init_snowflake(Grid, beta)
    ELSE grow_snowflake(Replay(n - 1), alpha, beta, gamma, "ok").grid

\* C11: a completed step is a function of s, frozen, step and alpha, beta,
\* gamma: the grid it leaves is the same whatever u held before the call, and
\* it is the grid of the run that resets and completes the same number of
\* steps without any failed call in between.
C11_Deterministic ==
    [][Grew =>
          /\ \A u0 \in {NoVapor, s, u'} :
                grow_snowflake([Grid EXCEPT !.u = u0], alpha, beta, gamma, "ok").grid
                    = GridAfter
          /\ GridAfter = Replay(step + 1)]_vars

\* steps have completed after a call that failed with u already rewritten,
\* and cells have frozen in them
C11_Witness ==
    /\ lastOp = "grow"
    /\ "no_s_new" \in failures
    /\ step >= 2
    /\ Cardinality(FrozenSet) > 1

\* a transition that is a call of grow_snowflake in which an allocation fails
FailedCall ==
    \E alloc \in AllocOutcomes \ {"ok"} : OkPress(alloc, MaxDeepStep)

\* C12 (as claimed): a call of grow_snowflake in which an allocation fails
\* leaves s, u, frozen and the step counter as they were before the call.
C12_FailureLeavesGrid ==
    [][FailedCall => UNCHANGED <<s, u, frozen, step>>]_vars

\* a transition that is a completed call of README.md's grow_snowflake
CanvasCompleted == CanvasOkPress("ok")

\* C13 (as claimed): what a call of grow_snowflake with a failed allocation
\* returns to its caller differs from what a completed call from the same
\* state returns (probabilistic variant: also from a completed call that
\* added zero pixels).
C13_FailureSurfaced ==
    [][CanvasCompleted =>
          lastCall'.added # readme_grow_snowflake(pstate, "no_newPixels").ret]_vars

\* C14 (as claimed): a completed step increments the step counter by exactly
\* 1, also when it froze no cell; stated for the probabilistic variant, whose
\* step counter is pstate.step.
C14_StepCountsEveryCall ==
    [][CanvasCompleted => pstate'.step = pstate.step + 1]_vars

\* C20 (as claimed): the value grow_snowflake of README.md returns is the
\* number of pixels that are set after the call and were not set before it.
C20_ReturnCountsNewPixels ==
    [][CanvasCompleted =>
          lastCall'.added =
              Cardinality({i \in CanvasIdx :
                              pstate'.canvas[i] # 0 /\ pstate.canvas[i] = 0})]_vars

\* alpha, beta and gamma lie in their ranges
InRange ==
    /\ ALPHA_MIN <= alpha /\ alpha <= ALPHA_MAX
    /\ BETA_MIN <= beta /\ beta <= BETA_MAX
    /\ GAMMA_MIN <= gamma /\ gamma <= GAMMA_MAX

\* the value v brought into lo .. hi
Clamped(v, lo, hi) == IF v < lo THEN lo ELSE IF v > hi THEN hi ELSE v

\* C15: alpha stays in [ALPHA_MIN, ALPHA_MAX], beta in [BETA_MIN, BETA_MAX]
\* and gamma in [GAMMA_MIN, GAMMA_MAX] through every event, and a Right or
\* Left press writes the stepped value of the selected parameter brought
\* into its range: the bound itself when the step would leave the range.
C15_ParametersClamped ==
    /\ InRange
    /\ [][/\ InRange'
          /\ RightPress =>
                /\ selected_param = PARAM_ALPHA =>
                      alpha' = Clamped(alpha + ALPHA_STEP, ALPHA_MIN, ALPHA_MAX)
                /\ selected_param = PARAM_BETA =>
                      beta' = Clamped(beta + BETA_STEP, BETA_MIN, BETA_MAX)
                /\ selected_param = PARAM_GAMMA =>
                      gamma' = Clamped(gamma + GAMMA_STEP, GAMMA_MIN, GAMMA_MAX)
          /\ LeftPress =>
                /\ selected_param = PARAM_ALPHA =>
                      alpha' = Clamped(alpha - ALPHA_STEP, ALPHA_MIN, ALPHA_MAX)
                /\ selected_param = PARAM_BETA =>
                      beta' = Clamped(beta - BETA_STEP, BETA_MIN, BETA_MAX)
                /\ selected_param = PARAM_GAMMA =>
                      gamma' = Clamped(gamma - GAMMA_STEP, GAMMA_MIN, GAMMA_MAX)]_vars

\* one adjustment has been made, of a parameter at the bound it was stepped
\* against, and has left it at that bound
C15_Witness ==
    /\ nadjust = 1
    /\ \/ alpha = ALPHA_MAX /\ beta = BETA_MIN /\ gamma = GAMMA_MIN
       \/ alpha = ALPHA_MIN /\ beta = BETA_MAX /\ gamma = GAMMA_MAX

\* C16 (as claimed): an Up or Down press changes the value of the selected
\* parameter and leaves the selection, a Left or Right press moves the
\* selection and leaves alpha, beta and gamma.
C16_KeyRoles ==
    [][/\ (UpPress \/ DownPress) => UNCHANGED selected_param
       /\ (LeftPress \/ RightPress) => UNCHANGED <<alpha, beta, gamma>>]_vars

\* the grid is in the reset state
IsResetState ==
    /\ \A i \in Idx : frozen[i] <=> (i = center_idx)
    /\ \A i \in Idx : s[i] = IF i = center_idx THEN Unit ELSE beta
    /\ \A i \in Idx : u[i] = 0
    /\ step = 0

\* a transition that is a Back release
WasBack == \E d \in PressDurations : BackRelease(d)

\* C17: a Back release at most 500 ticks after the press resets the grid,
\* keeps alpha, beta, gamma and the selection and keeps the loop running; a
\* Back release after more than 500 ticks ends the loop and leaves the grid;
\* no other event ends the loop or takes a grown grid back to step 0.
C17_BackPress ==
    [][/\ \A d \in PressDurations :
             BackRelease(d) =>
                 IF d <= 500
                 THEN /\ IsResetState'
                      /\ UNCHANGED <<alpha, beta, gamma, selected_param>>
                      /\ running'
                 ELSE /\ ~running'
                      /\ UNCHANGED <<s, u, frozen, step>>
       /\ ~WasBack => /\ running' = running
                      /\ step' >= step
                      /\ step > 0 => ~IsResetState']_vars

\* the loop has ended by a long Back press after a short one had reset the
\* grid, with a parameter adjusted and another one selected
C17_Witness ==
    /\ ~running
    /\ lastOp = "reset"
    /\ nadjust >= 1
    /\ selected_param # PARAM_ALPHA
    /\ IsResetState

C19_GrowthWithin50 ==
    (alpha = AlphaUnit /\ beta = Unit \div 2 /\ gamma = Unit \div 100) =>
        /\ lastOp \in {"init", "reset"} => Cardinality(FrozenSet) = 1
        /\ step = 50 => Cardinality(FrozenSet) > 1

\* the run of the scenario has completed its 50th step
C19_Witness ==
    /\ alpha = AlphaUnit /\ beta = Unit \div 2 /\ gamma = Unit \div 100
    /\ lastOp = "grow"
    /\ step = 50
    /\ Cardinality(FrozenSet) > 1

\* cell i lies in the border ring, two cells wide
InRing(i) ==
    \/ XOf(i) < 2 \/ XOf(i) >= GRID_SIZE - 2
    \/ YOf(i) < 2 \/ YOf(i) >= GRID_SIZE - 2

\* cell i has a frozen hex neighbour
HasFrozenNeighbor(i) ==
    \E k \in 1 .. Len(NeighborIdx[i]) : frozen[NeighborIdx[i][k]]

\* C21: a cell is newly frozen by a step exactly when it was an unfrozen
\* non-border cell with a frozen hex neighbour and s + u' + gamma >= 1.0; a
\* non-border cell that is neither frozen nor next to a frozen cell gets
\* s = u' and stays unfrozen; a border-ring cell gets s = beta.
C21_FreezeRule ==
    [][Grew =>
          \A i \in Idx :
              /\ (frozen'[i] /\ ~frozen[i]) <=>
                     /\ ~frozen[i]
                     /\ ~InRing(i)
                     /\ HasFrozenNeighbor(i)
                     /\ s[i] + u'[i] + gamma >= Unit
              /\ (~InRing(i) /\ ~frozen[i] /\ ~HasFrozenNeighbor(i)) =>
                     (s'[i] = u'[i] /\ ~frozen'[i])
              /\ InRing(i) => s'[i] = beta]_vars

\* a step has frozen cells, has left a receptive cell below 1.0 unfrozen and
\* has given a non-receptive cell away from the ring a vapor value of its own
C21_Witness ==
    /\ lastOp = "grow"
    /\ Cardinality(FrozenSet) > 1
    /\ \E i \in Idx : rec3[i] /\ ~frozen[i] /\ s[i] < Unit
    /\ \E i \in Idx : ~InRing(i) /\ ~rec3[i] /\ s[i] = u[i] /\ s[i] # beta

\* the border-ring cells that are neighbours of a cell outside the ring: the
\* ring cells whose vapor the diffusion of step 2 reads
RingNeighbors ==
    {j \in Idx : InRing(j) /\
        \E i \in Idx : ~InRing(i) /\
            \E k \in 1 .. Len(NeighborIdx[i]) : NeighborIdx[i][k] = j}

\* C24 (as claimed): in every step the vapor value that the diffusion reads
\* from a border-ring neighbour (the field left by step 1) is the beta of the
\* state the step begins in.
C24_BetaInEffect ==
    [][Grew => \A j \in RingNeighbors : Phase1U[j] = beta]_vars


\* a completed grow_snowflake call of part_000
FixedGrew == p0state'.step = p0state.step + 1

\* C22: in part_000 the receptive classification that step 4 uses for a cell,
\* when it updates s and freezes, is the classification of step 1, taken
\* from the frozen array of the start of the call: a cell that freezes
\* earlier in the scan does not change how a later cell is updated.
C22_SnapshotClassification ==
    [][FixedGrew =>
         \A i \in P0Idx :
             i \in p0rec' <=> p0_is_receptive(p0state.frozen, i)]_vars

\* C23: in part_000 no cell of the outermost ring is ever receptive or
\* frozen in a state reachable from reset, and each holds s = BETA.
C23_RingHeld ==
    \A i \in P0RingIdx :
        /\ i \notin p0state.frozen
        /\ ~p0_is_receptive(p0state.frozen, i)
        /\ p0state.s[i] = BETA

====
